---- MODULE Spec2Model ----
(***************************************************************************)
(* The autoComplete directive of ngTagsInput (src/src/auto-complete.js):   *)
(* the SuggestionList object (debounced load, stale-promise check, filter, *)
(* truncation, show/reset, cursor navigation) and the link function's      *)
(* event handlers that drive it.                                           *)
(*                                                                         *)
(* A candidate or tag is represented by its display-property value (a      *)
(* string).  $timeout handles and promises are identified by the number of *)
(* the load call that created them; 0 stands for "no handle" (undefined    *)
(* debouncedLoadId) and for lastPromise = null.                            *)
(***************************************************************************)
EXTENDS Integers, Sequences, FiniteSets, TLC

\* ---------------------------------------------------------------- bounds
MaxLoads == 2

\* ------------------------------------------------------------- JS values
NULL == "null"
UNDEFINED == "undefined"

\* the display values of the candidates the data source knows
Cands == {"a", "b"}

\* what the data source may resolve to: any candidates in any order, each at
\* most once (scope.track makes the display value the key of a list row)
Responses ==
  {r \in UNION {[1..k -> Cands] : k \in 0..Cardinality(Cands)} :
     \A i, j \in 1..Len(r) : i # j => r[i] # r[j]}

\* the text of the input box; TextLen is value.length
Texts == {"", "x"}
TextLen(v) == CASE v = "" -> 0 [] v = "x" -> 1

KEYS == [enter |-> "enter", tab |-> "tab", escape |-> "escape",
         up |-> "up", down |-> "down"]
hotkeys == {KEYS.enter, KEYS.tab, KEYS.escape, KEYS.up, KEYS.down}
AllKeys == hotkeys \cup {"other"}

\* the option values the directive may be configured with: what decides when
\* the handlers load (four profiles), and what decides what a response shows
LoadOptions ==
  {[minLength |-> 0, loadOnEmpty |-> TRUE, loadOnDownArrow |-> TRUE, loadOnFocus |-> TRUE],
   [minLength |-> 0, loadOnEmpty |-> FALSE, loadOnDownArrow |-> FALSE, loadOnFocus |-> FALSE],
   [minLength |-> 2, loadOnEmpty |-> TRUE, loadOnDownArrow |-> FALSE, loadOnFocus |-> TRUE],
   [minLength |-> 2, loadOnEmpty |-> FALSE, loadOnDownArrow |-> TRUE, loadOnFocus |-> FALSE]}

OptionSets ==
  {[minLength |-> l.minLength, loadOnEmpty |-> l.loadOnEmpty,
    loadOnDownArrow |-> l.loadOnDownArrow, loadOnFocus |-> l.loadOnFocus,
    maxResultsToShow |-> n, selectFirstMatch |-> f] :
     l \in LoadOptions, n \in {-1, 0, 1}, f \in BOOLEAN}

\* ------------------------------------------------------------------ state
VARIABLES
  self,             \* the SuggestionList's public fields
  lastPromise,      \* id of the promise of the last fetch, 0 = null
  debouncedLoadId,  \* handle of the last $timeout, 0 = undefined
  calls,            \* every load call so far: its closure and its timer/promise
  tags,             \* host: tagsInput.getTags()
  text,             \* host: tagsInput.getCurrentTagText()
  options,          \* scope.options
  hist              \* observation only: what the last event did (called
                    \* self.reset, discarded a response, the handler's result and
                    \* its calls of the host), the fetches and timers that were
                    \* alive at the last reset, and the last load call while
                    \* loads, timers and successful responses are the only events

vars == <<self, lastPromise, debouncedLoadId, calls, tags, text, options, hist>>

Closed == [items |-> <<>>, visible |-> FALSE, index |-> -1,
           selected |-> NULL, query |-> NULL]

\* hist of a new SuggestionList
Hist0 == [ok |-> TRUE, query |-> NULL, got |-> FALSE, resp |-> <<>>,
          reset |-> FALSE, discarded |-> FALSE, handled |-> FALSE,
          added |-> <<>>, focus |-> FALSE, old |-> {}]

\* the timers and fetches of cs that can still run their callback
Live(cs) == {c \in 1..Len(cs) : cs[c].status \in {"pending", "fired"}}

\* hist after an event that is not a load, a timer or a response and that did
\* none of the things hist records
NoHist == [Hist0 EXCEPT !.ok = FALSE, !.old = hist.old]

\* hist after a handler that called self.reset
WasReset == [NoHist EXCEPT !.reset = TRUE, !.old = Live(calls')]

\* hist after a load call with this query
Issued(query) ==
  IF hist.ok THEN [Hist0 EXCEPT !.query = query, !.old = hist.old]
  ELSE NoHist

\* hist h with what it records of the last event cleared
Quiet(h) ==
  [h EXCEPT !.reset = FALSE, !.discarded = FALSE, !.handled = FALSE,
            !.added = <<>>, !.focus = FALSE]

InSeq(s, x) == \E i \in 1..Len(s) : s[i] = x

\* --------------------------------------------------- timers and promises
Pending(c) == c \in 1..Len(calls) /\ calls[c].status = "pending"
InFlight(c) == c \in 1..Len(calls) /\ calls[c].status = "fired"

\* a timer that was cancelled, a promise that was resolved or rejected: its
\* closure is garbage, its state stays
Over(st) == [query |-> "", tags |-> <<>>, status |-> st]

\* $timeout.cancel(id): a timer that has not fired yet never will
cancel(cs, id) ==
  [c \in 1..Len(cs) |->
     IF c = id /\ cs[c].status = "pending" THEN Over("cancelled") ELSE cs[c]]

Settle(cs, c, st) == [cs EXCEPT ![c] = Over(st)]

\* with lp the current promise: the callback of any other fetch in flight
\* returns at its first test, so the query and tags it closed over are garbage
Collect(cs, lp) ==
  [c \in 1..Len(cs) |->
     IF cs[c].status = "fired" /\ c # lp THEN Over("fired") ELSE cs[c]]

\* ------------------------------------------------------- SuggestionList
\* items[index] of a JavaScript array
ItemAt(items, i) == IF i >= 0 /\ i < Len(items) THEN items[i + 1] ELSE UNDEFINED

Truthy(v) == v # NULL /\ v # UNDEFINED /\ v # ""

\* the first element of array with the display value of item, or null
RECURSIVE findFrom(_, _, _)
findFrom(array, item, i) ==
  IF i > Len(array) THEN NULL
  ELSE IF array[i] = item THEN array[i]
  ELSE findFrom(array, item, i + 1)

findInObjectArray(array, item) == findFrom(array, item, 1)

\* array1.filter(function (item) { return !findInObjectArray(array2, item, ...) })
getDifference(array1, array2) ==
  SelectSeq(array1, LAMBDA item : ~Truthy(findInObjectArray(array2, item)))

\* Array.prototype.slice(0, end)
slice0(a, end) ==
  LET e == IF end < 0 THEN (IF Len(a) + end < 0 THEN 0 ELSE Len(a) + end)
           ELSE (IF end > Len(a) THEN Len(a) ELSE end)
  IN  SubSeq(a, 1, e)

\* select that stops at the last item instead of wrapping to the first
select_clamps(s, index) ==
  LET i == IF index < 0 THEN Len(s.items) - 1
           ELSE IF index >= Len(s.items) THEN Len(s.items) - 1
           ELSE index
  IN  [s EXCEPT !.index = i, !.selected = ItemAt(s.items, i)]

select(s, index) ==
  LET i == IF index < 0 THEN Len(s.items) - 1
           ELSE IF index >= Len(s.items) THEN 0
           ELSE index
  IN  [s EXCEPT !.index = i, !.selected = ItemAt(s.items, i)]

selectNext(s) == select([s EXCEPT !.index = s.index + 1], s.index + 1)

selectPrior(s) == select([s EXCEPT !.index = s.index - 1], s.index - 1)

\* show that never selects the first item
show_noSelect(s) ==
  [s EXCEPT !.selected = NULL, !.visible = TRUE]

show(s) ==
  LET s1 == IF options.selectFirstMatch THEN select(s, 0)
            ELSE [s EXCEPT !.selected = NULL]
  IN  [s1 EXCEPT !.visible = TRUE]

\* reset that leaves lastPromise as it is
reset_keepsPromise(cs) ==
  /\ self' = Closed
  /\ calls' = cancel(cs, debouncedLoadId)
  /\ UNCHANGED <<lastPromise, debouncedLoadId>>

\* reset that leaves self.visible as it is
reset_staysVisible(cs) ==
  /\ lastPromise' = 0
  /\ self' = [Closed EXCEPT !.visible = self.visible]
  /\ calls' = Collect(cancel(cs, debouncedLoadId), 0)
  /\ UNCHANGED debouncedLoadId

\* reset without $timeout.cancel(debouncedLoadId)
reset_noCancel(cs) ==
  /\ lastPromise' = 0
  /\ self' = Closed
  /\ calls' = Collect(cs, 0)
  /\ UNCHANGED debouncedLoadId

\* reset that only clears the fields of the list
reset_fieldsOnly(cs) ==
  /\ self' = Closed
  /\ calls' = cs
  /\ UNCHANGED <<lastPromise, debouncedLoadId>>

\* self.reset, applied to the calls as they stand (cs)
reset(cs) ==
  /\ lastPromise' = 0
  /\ self' = Closed
  /\ calls' = Collect(cancel(cs, debouncedLoadId), 0)
  /\ UNCHANGED debouncedLoadId

\* load without $timeout.cancel(debouncedLoadId)
load_noCancel(query, tgs) ==
  /\ Len(calls) < MaxLoads
  /\ calls' = Append(calls, [query |-> query, tags |-> tgs, status |-> "pending"])
  /\ debouncedLoadId' = Len(calls) + 1
  /\ UNCHANGED <<self, lastPromise>>

\* self.load: cancel the pending timer, arm a new one
load(query, tgs) ==
  /\ Len(calls) < MaxLoads
  /\ calls' = Append(cancel(calls, debouncedLoadId),
                     [query |-> query, tags |-> tgs, status |-> "pending"])
  /\ debouncedLoadId' = Len(calls) + 1
  /\ UNCHANGED <<self, lastPromise>>

\* the callback truncating before it filters
Stored_truncatesFirst(items, tgs) ==
  IF options.maxResultsToShow = -1 THEN getDifference(items, tgs)
  ELSE getDifference(slice0(items, options.maxResultsToShow), tgs)

\* what the promise callback stores in self.items
Stored(items, tgs) ==
  LET d == getDifference(items, tgs)
  IN  IF options.maxResultsToShow = -1 THEN d
      ELSE slice0(d, options.maxResultsToShow)

\* the $timeout callback of load call c
TimerFire(c) ==
  /\ Pending(c)
  /\ self' = [self EXCEPT !.query = calls[c].query]
  /\ lastPromise' = c
  /\ calls' = Collect([calls EXCEPT ![c].status = "fired"], c)
  /\ hist' = Quiet(hist)
  /\ UNCHANGED <<debouncedLoadId, tags, text, options>>

\* the callback without its test of promise !== lastPromise
Resolve_noStaleCheck(c, items) ==
  /\ InFlight(c)
  /\ LET its == Stored(items, calls[c].tags)
     IN  IF Len(its) > 0
         THEN /\ self' = show([self EXCEPT !.items = its])
              /\ calls' = Settle(calls, c, "resolved")
              /\ UNCHANGED <<lastPromise, debouncedLoadId>>
         ELSE reset(Settle(calls, c, "resolved"))
  /\ hist' = [Quiet(hist) EXCEPT !.discarded = c # lastPromise,
                                 !.old = hist.old \ {c}]
  /\ UNCHANGED <<tags, text, options>>

\* promise.then(function (items) ...) of load call c
Resolve(c, items) ==
  /\ InFlight(c)
  /\ IF c # lastPromise
     THEN /\ calls' = Settle(calls, c, "resolved")
          /\ UNCHANGED <<self, lastPromise, debouncedLoadId>>
     ELSE LET its == Stored(items, calls[c].tags)
          IN  /\ IF Len(its) > 0
                 THEN /\ self' = show([self EXCEPT !.items = its])
                      /\ calls' = Settle(calls, c, "resolved")
                      /\ UNCHANGED <<lastPromise, debouncedLoadId>>
                 ELSE reset(Settle(calls, c, "resolved"))
  /\ hist' = [Quiet(hist) EXCEPT
                !.got = hist.got \/ (hist.ok /\ c = Len(calls)),
                !.resp = IF hist.ok /\ c = Len(calls) THEN items ELSE hist.resp,
                !.reset = c = lastPromise /\ Len(Stored(items, calls[c].tags)) = 0,
                !.discarded = c # lastPromise,
                !.old = IF c = lastPromise /\ Len(Stored(items, calls[c].tags)) = 0
                        THEN Live(calls') ELSE hist.old \ {c}]
  /\ UNCHANGED <<tags, text, options>>

\* a rejection handled like an empty response
Reject_resets(c) ==
  /\ InFlight(c)
  /\ IF c = lastPromise
     THEN reset(Settle(calls, c, "rejected"))
     ELSE /\ calls' = Settle(calls, c, "rejected")
          /\ UNCHANGED <<self, lastPromise, debouncedLoadId>>
  /\ hist' = [NoHist EXCEPT !.old = hist.old \ {c}]
  /\ UNCHANGED <<tags, text, options>>

\* the promise of load call c rejects: then() was given no error callback
Reject(c) ==
  /\ InFlight(c)
  /\ calls' = Settle(calls, c, "rejected")
  /\ hist' = [NoHist EXCEPT !.old = hist.old \ {c}]
  /\ UNCHANGED <<self, lastPromise, debouncedLoadId, tags, text, options>>

\* ------------------------------------------------------- link function
shouldLoadSuggestions(value) ==
  \/ Truthy(value) /\ TextLen(value) >= options.minLength
  \/ ~Truthy(value) /\ options.loadOnEmpty

Remove(s, i) == [j \in 1..(Len(s) - 1) |-> IF j < i THEN s[j] ELSE s[j + 1]]

\* tagsInput.addTag(tag): the host accepts the tag (and fires tag-added) or
\* refuses it (and fires invalid-tag); the caller resets the list right after
addTag(tag, ok) ==
  tags' = IF ok /\ ~InSeq(tags, tag) THEN Append(tags, tag) ELSE tags

\* addSuggestion reporting a commit whatever it did
added_always(s) == TRUE

\* the value scope.addSuggestion returns on the list state s
added(s) == Truthy(s.selected)

\* hist after scope.addSuggestion on the list state s: when it commits it has
\* called tagsInput.addTag(s.selected), self.reset and tagsInput.focusInput()
Committed(s) ==
  IF added(s) THEN [WasReset EXCEPT !.added = <<s.selected>>, !.focus = TRUE]
  ELSE NoHist

\* addSuggestion that commits the tag and leaves the list as it is
addSuggestion_noReset(s) ==
  IF Truthy(s.selected)
  THEN /\ \E ok \in BOOLEAN : addTag(s.selected, ok)
       /\ self' = s
       /\ UNCHANGED <<lastPromise, debouncedLoadId, calls>>
  ELSE /\ self' = s
       /\ UNCHANGED <<lastPromise, debouncedLoadId, calls, tags>>

\* scope.addSuggestion on the list state s. tagsInput.focusInput() is the
\* host's; a focus event it raises is InputFocus.
addSuggestion(s) ==
  IF Truthy(s.selected)
  THEN /\ \E ok \in BOOLEAN : addTag(s.selected, ok)
       /\ reset(calls)
  ELSE /\ self' = s
       /\ UNCHANGED <<lastPromise, debouncedLoadId, calls, tags>>

\* scope.addSuggestionByIndex
AddSuggestionByIndex(index) ==
  LET s == select(self, index)
  IN  /\ addSuggestion(s)
      /\ hist' = Committed(s)
      /\ UNCHANGED <<text, options>>

\* the events of the host that reach the handler registered for
\* 'tag-added tag-removed invalid-tag input-blur', with the host's tags after
\* the event
HostTagChanges ==
  {Append(tags, t) : t \in {c \in Cands : ~InSeq(tags, c)}}
    \cup {Remove(tags, i) : i \in 1..Len(tags)}
    \cup {tags}

\* a handler that does nothing
Lifecycle_noReset(newTags) ==
  /\ tags' = newTags
  /\ hist' = NoHist
  /\ UNCHANGED <<self, lastPromise, debouncedLoadId, calls, text, options>>

\* a handler that resets the list only when it is open
Lifecycle_onlyWhenOpen(newTags) ==
  /\ tags' = newTags
  /\ IF self.visible
     THEN /\ reset(calls)
          /\ hist' = WasReset
     ELSE /\ hist' = NoHist
          /\ UNCHANGED <<self, lastPromise, debouncedLoadId, calls>>
  /\ UNCHANGED <<text, options>>

\* on('tag-added tag-removed invalid-tag input-blur', ...): newTags is what
\* the host's tags are when the handler runs (changed by tag-added and
\* tag-removed, the same for invalid-tag and input-blur)
Lifecycle(newTags) ==
  /\ tags' = newTags
  /\ reset(calls)
  /\ hist' = WasReset
  /\ UNCHANGED <<text, options>>

\* on('input-change', function (value) ...)
InputChange(value) ==
  /\ text' = value
  /\ IF shouldLoadSuggestions(value)
     THEN /\ load(value, tags)
          /\ hist' = Issued(value)
     ELSE /\ reset(calls)
          /\ hist' = WasReset
  /\ UNCHANGED <<tags, options>>

\* on('input-focus', ...)
InputFocus ==
  /\ IF options.loadOnFocus /\ shouldLoadSuggestions(text)
     THEN /\ load(text, tags)
          /\ hist' = Issued(text)
     ELSE /\ hist' = NoHist
          /\ UNCHANGED <<self, lastPromise, debouncedLoadId, calls>>
  /\ UNCHANGED <<tags, text, options>>

\* on('input-keydown', function (event) ...)
InputKeydown(key) ==
  /\ IF key \notin hotkeys
     THEN /\ hist' = NoHist
          /\ UNCHANGED <<self, lastPromise, debouncedLoadId, calls, tags>>
     ELSE IF self.visible
     THEN CASE key = KEYS.down ->
                 /\ self' = selectNext(self)
                 /\ hist' = [NoHist EXCEPT !.handled = TRUE]
                 /\ UNCHANGED <<lastPromise, debouncedLoadId, calls, tags>>
            [] key = KEYS.up ->
                 /\ self' = selectPrior(self)
                 /\ hist' = [NoHist EXCEPT !.handled = TRUE]
                 /\ UNCHANGED <<lastPromise, debouncedLoadId, calls, tags>>
            [] key = KEYS.escape ->
                 /\ reset(calls)
                 /\ hist' = [WasReset EXCEPT !.handled = TRUE]
                 /\ UNCHANGED tags
            [] OTHER ->
                 /\ addSuggestion(self)
                 /\ hist' = [Committed(self) EXCEPT !.handled = added(self)]
     ELSE IF key = KEYS.down /\ options.loadOnDownArrow
     THEN /\ load(text, tags)
          /\ hist' = [Issued(text) EXCEPT !.handled = TRUE]
          /\ UNCHANGED tags
     ELSE /\ hist' = NoHist
          /\ UNCHANGED <<self, lastPromise, debouncedLoadId, calls, tags>>
  /\ UNCHANGED <<text, options>>

\* suggestionList.select / selectNext / selectPrior called on the exposed
\* scope.suggestionList
Select(index) ==
  /\ self' = select(self, index)
  /\ hist' = NoHist
  /\ UNCHANGED <<lastPromise, debouncedLoadId, calls, tags, text, options>>

SelectNext ==
  /\ self' = selectNext(self)
  /\ hist' = NoHist
  /\ UNCHANGED <<lastPromise, debouncedLoadId, calls, tags, text, options>>

SelectPrior ==
  /\ self' = selectPrior(self)
  /\ hist' = NoHist
  /\ UNCHANGED <<lastPromise, debouncedLoadId, calls, tags, text, options>>

\* the indices a caller may pass to select
Indices == (-1)..Cardinality(Cands)

\* new SuggestionList(...) ends with self.reset()
Init ==
  /\ self = Closed
  /\ lastPromise = 0
  /\ debouncedLoadId = 0
  /\ calls = <<>>
  /\ tags \in Responses
  /\ text = ""
  /\ options \in OptionSets
  /\ hist = Hist0

Next ==
  \/ \E c \in 1..MaxLoads : TimerFire(c)
  \/ \E c \in 1..MaxLoads, r \in Responses : Resolve(c, r)
  \/ \E c \in 1..MaxLoads : Reject(c)
  \/ \E v \in Texts : InputChange(v)
  \/ InputFocus
  \/ \E k \in AllKeys : InputKeydown(k)
  \/ \E t \in HostTagChanges : Lifecycle(t)
  \/ \E i \in Indices : AddSuggestionByIndex(i)
  \/ \E i \in Indices : Select(i)
  \/ SelectNext
  \/ SelectPrior

Spec == Init /\ [][Next]_vars

\* ================================================================ claims
TagSet == {tags[i] : i \in 1..Len(tags)}
PendingIn(cs) == {c \in 1..Len(cs) : cs[c].status = "pending"}
FetchedIn(cs) == {c \in 1..Len(cs) : cs[c].status \in {"fired", "resolved", "rejected"}}
Quiescent == \A c \in 1..Len(calls) : calls[c].status \notin {"pending", "fired"}
\* what the user can observe of the list
Observable(s) == <<s.items, s.visible, s.index, s.selected>>
\* the promise of call c resolves in this step and passes the stale check
Applies(c) == InFlight(c) /\ calls'[c].status = "resolved" /\ c = lastPromise

\* C1: a response changes the observable list state (items, visibility, cursor,
\* selection) only if it answers the last-issued load call, where a call counts
\* as issued from the moment load is called.
C1_OnlyLastIssuedLoadUpdates ==
  [][\A c \in 1..MaxLoads :
       (Applies(c) /\ Observable(self') # Observable(self)) => c = Len(calls)]_vars

\* the state the response to a load call (query, response) produces when nothing
\* else has touched the list
Produced(query, resp) ==
  LET its == Stored(resp, tags)
  IN  IF Len(its) = 0 THEN Closed
      ELSE [items |-> its, visible |-> TRUE,
            index |-> IF options.selectFirstMatch THEN 0 ELSE -1,
            selected |-> IF options.selectFirstMatch THEN its[1] ELSE NULL,
            query |-> query]

\* C2: when load calls, their timers and their successful responses are the only
\* events, then once no timer is pending and no fetch is in flight the list state
\* is the one produced by the response to the last-issued load call.
C2_LastLoadDecidesFinalState ==
  (hist.ok /\ Len(calls) >= 1 /\ Quiescent)
    => (hist.got /\ self = Produced(hist.query, hist.resp))

\* C3: no item of the Suggestion Set has the display value of a tag the host
\* currently holds.
C3_NoSuggestionIsATag ==
  \A i \in 1..Len(self.items) : self.items[i] \notin TagSet

\* the list is open on a response that held a tag's value
C3_Witness ==
  /\ self.visible
  /\ hist.ok /\ hist.got
  /\ \E i \in 1..Len(hist.resp) : hist.resp[i] \in TagSet

\* C4: whenever the list is visible and non-empty, the cursor is an index of the
\* set or the 'none' value -1.
C4_CursorInRangeOrNone ==
  (self.visible /\ Len(self.items) > 0)
    => self.index \in (-1)..(Len(self.items) - 1)

\* C5: visible = true implies that the Suggestion Set is non-empty.
C5_VisibleImpliesNonEmpty == self.visible => Len(self.items) > 0

\* the list is open on a response that truncation shortened
C5_Witness ==
  /\ self.visible
  /\ options.maxResultsToShow = 1
  /\ hist.ok /\ hist.got /\ Len(hist.resp) = 2

Kept(resp, tgs) ==
  {i \in 1..Len(resp) : \A j \in 1..Len(tgs) : tgs[j] # resp[i]}
\* the k-th smallest element of a set of numbers
Nth(K, k) == CHOOSE i \in K : Cardinality({j \in K : j < i}) = k - 1
Min(a, b) == IF a < b THEN a ELSE b

\* C7: a response that passes the stale check stores the candidates no tag of the
\* load call matches, in the response's order, cut to the first maxResultsToShow
\* of them (all of them for -1).
C7_FilterThenTruncate ==
  [][\A c \in 1..MaxLoads :
       (Applies(c) /\ options.maxResultsToShow >= -1) =>
         \A r \in Responses :
           Resolve(c, r) =>
             LET K == Kept(r, calls[c].tags)
                 n == IF options.maxResultsToShow = -1 THEN Cardinality(K)
                      ELSE Min(options.maxResultsToShow, Cardinality(K))
             IN  /\ Len(self'.items) = n
                 /\ \A k \in 1..n : self'.items[k] = r[Nth(K, k)]]_vars

\* a response whose first candidate is a tag and whose second is shown, with
\* maxResultsToShow = 1
C7_Witness ==
  /\ hist.ok /\ hist.got
  /\ options.maxResultsToShow = 1
  /\ Len(hist.resp) = 2
  /\ hist.resp[1] \in TagSet
  /\ self.visible
  /\ self.items = <<hist.resp[2]>>

\* C8: initially and after every reset the set is empty, visible is false, the
\* cursor is -1, the selection and the query are null and no timer is pending.
C8_ResetClosesAndCancels ==
  ((hist.ok /\ Len(calls) = 0) \/ hist.reset)
    => (self = Closed /\ PendingIn(calls) = {})

\* a reset has just cancelled the pending timer of the last load call
C8_Witness ==
  /\ hist.reset
  /\ Len(calls) >= 1
  /\ calls[Len(calls)].status = "cancelled"

\* C9: a rejected fetch changes no field of the list.
C9_RejectionChangesNothing ==
  [][\A c \in 1..MaxLoads :
       (InFlight(c) /\ calls'[c].status = "rejected") => self' = self]_vars

\* the fetch that was current was rejected while the list was open
C9_Witness ==
  \E c \in 1..Len(calls) :
    calls[c].status = "rejected" /\ lastPromise = c /\ self.visible

\* the steps that are selectNext, selectPrior and select(i)
NextStep == SelectNext \/ (self.visible /\ InputKeydown(KEYS.down))
PriorStep == SelectPrior \/ (self.visible /\ InputKeydown(KEYS.up))
AtCursor(s) == s.index \in 0..(Len(s.items) - 1) /\ s.selected = s.items[s.index + 1]

\* C10 as stated: on a non-empty set of length L, selectNext goes from L-1 to 0
\* and otherwise adds 1, selectPrior goes from 0 to L-1 and otherwise subtracts 1,
\* select(i) gives L-1 for i < 0, 0 for i >= L and i otherwise; afterwards the
\* cursor is in [0, L-1] and the selection is the item at the cursor.
C10_AsStated ==
  [][LET L == Len(self.items)
     IN  L > 0 =>
           /\ NextStep => /\ self'.index = IF self.index = L - 1 THEN 0
                                            ELSE self.index + 1
                          /\ AtCursor(self')
           /\ PriorStep => /\ self'.index = IF self.index = 0 THEN L - 1
                                             ELSE self.index - 1
                           /\ AtCursor(self')
           /\ \A i \in Indices :
                Select(i) => /\ self'.index = IF i < 0 THEN L - 1
                                              ELSE IF i >= L THEN 0 ELSE i
                             /\ AtCursor(self')]_vars

\* C10 amended: selectNext and selectPrior move the cursor by +1 and -1 when that
\* stays in [0, L-1]; otherwise selectNext gives 0, and selectPrior gives L-1 from
\* a cursor <= 0 (from 0 and from none) and 0 from a cursor > L.
C10_NavigationWraps ==
  [][LET L == Len(self.items)
     IN  L > 0 =>
           /\ NextStep => /\ self'.index = IF self.index + 1 \in 0..(L - 1)
                                            THEN self.index + 1 ELSE 0
                          /\ AtCursor(self')
           /\ PriorStep => /\ self'.index = IF self.index - 1 \in 0..(L - 1)
                                             THEN self.index - 1
                                             ELSE IF self.index <= 0 THEN L - 1 ELSE 0
                           /\ AtCursor(self')
           /\ \A i \in Indices :
                Select(i) => /\ self'.index = IF i < 0 THEN L - 1
                                              ELSE IF i >= L THEN 0 ELSE i
                             /\ AtCursor(self')]_vars

\* the cursor stands on the last of at least two items
C10_Witness ==
  /\ self.visible
  /\ Len(self.items) >= 2
  /\ self.index = Len(self.items) - 1
  /\ self.selected = self.items[Len(self.items)]

\* a load call with this query and the host's current tags was made in this step
LoadIssued(query) ==
  /\ Len(calls') = Len(calls) + 1
  /\ calls'[Len(calls')] = [query |-> query, tags |-> tags, status |-> "pending"]

\* C11: on input-change with text v a load is issued (with v and the host's
\* current tags) whenever length(v) >= minLength, or v is empty and loadOnEmpty
\* is enabled; in every other case the list is reset.
C11_InputChangeLoadsOrResets ==
  [][\A v \in Texts :
       InputChange(v) =>
         IF TextLen(v) >= options.minLength \/ (v = "" /\ options.loadOnEmpty)
         THEN LoadIssued(v)
         ELSE /\ self' = Closed
              /\ lastPromise' = 0
              /\ Len(calls') = Len(calls)
              /\ PendingIn(calls') = {}]_vars

\* C12: enter or tab while the list is open: with a selection, addTag is called
\* once with the selected candidate, the list is reset, focus returns to the
\* input and the result is true; without one, addTag is not called, the list
\* is unchanged and the result is false.
C12_CommitOnEnterOrTab ==
  [][\A k \in {KEYS.enter, KEYS.tab} :
       (self.visible /\ InputKeydown(k)) =>
         IF Truthy(self.selected)
         THEN /\ hist'.added = <<self.selected>>
              /\ tags' \in {tags, Append(tags, self.selected)}
              /\ self' = Closed
              /\ lastPromise' = 0
              /\ PendingIn(calls') = {}
              /\ hist'.focus
              /\ hist'.handled
         ELSE /\ hist'.added = <<>>
              /\ tags' = tags
              /\ <<self, lastPromise, calls>>' = <<self, lastPromise, calls>>
              /\ ~hist'.focus
              /\ ~hist'.handled]_vars

\* enter or tab has just committed the selected candidate as a new tag
C12_Witness ==
  /\ hist.handled
  /\ Len(hist.added) = 1
  /\ InSeq(tags, hist.added[1])
  /\ hist.focus
  /\ self = Closed

\* a step of the handler of tag-added, tag-removed, invalid-tag and input-blur
LifecycleStep == \E t \in HostTagChanges : Lifecycle(t)

\* C13: while the list is open, each of tag-added, tag-removed, invalid-tag,
\* input-blur and the escape key closes it in that same step: visible becomes
\* false, the set becomes empty and the selection is cleared.
C13_OpenListClosesOnLifecycleAndEscape ==
  [][(self.visible /\ (LifecycleStep \/ InputKeydown(KEYS.escape))) =>
       /\ ~self'.visible
       /\ self'.items = <<>>
       /\ self'.selected = NULL
       /\ self'.index = -1]_vars

\* the escape key was just handled, which it only is on an open list, and the
\* list is closed
C13_Witness ==
  /\ hist.handled
  /\ hist.reset
  /\ hist.added = <<>>
  /\ ~self.visible
  /\ self.items = <<>>

\* C14 as stated: while the list is closed, tag-added, tag-removed, invalid-tag
\* and input-blur leave the whole list state unchanged, including the query, a
\* pending debounce timer and the current promise.
C14_AsStated ==
  [][(~self.visible /\ LifecycleStep) =>
       /\ self' = self
       /\ lastPromise' = lastPromise
       /\ PendingIn(calls') = PendingIn(calls)]_vars

\* C14 amended: while the list is closed, these events keep it closed and reset
\* it: the query becomes null, the cursor -1, the selection null, a pending
\* timer is cancelled and lastPromise is cleared; no fetch is issued.
C14_ClosedListIsResetOnLifecycle ==
  [][(~self.visible /\ LifecycleStep) =>
       /\ self' = Closed
       /\ lastPromise' = 0
       /\ PendingIn(calls') = {}
       /\ FetchedIn(calls') = FetchedIn(calls)]_vars

\* with options under which input-change always loads: the only load call so
\* far never fetched, because a lifecycle event cancelled its timer
C14_Witness ==
  /\ options.minLength = 0 /\ options.loadOnEmpty
  /\ hist.reset
  /\ Len(calls) = 1
  /\ calls[1].status = "cancelled"

\* C15: when a fetch resolves and its promise is not the current one, the
\* resolution is discarded: items, visibility, cursor, selection and query are
\* unchanged by that step (and so are lastPromise and the pending timer).
C15_StaleResponseDiscarded ==
  [][\A c \in 1..MaxLoads :
       (InFlight(c) /\ c # lastPromise /\ calls'[c].status = "resolved") =>
         /\ self' = self
         /\ lastPromise' = lastPromise
         /\ PendingIn(calls') = PendingIn(calls)]_vars

\* a response has just been discarded while the list, filled by the fetch that
\* was fired after it, is open
C15_Witness ==
  /\ hist.discarded
  /\ self.visible
  /\ lastPromise = 2
  /\ calls[1].status = "resolved"
  /\ calls[2].status = "resolved"

\* C16: whenever the list is visible, the stored query is the query of the load
\* call whose response produced the current set: a response that is applied
\* stores its own call's query with the set, and while the list stays visible
\* no other step (a timer firing, a discarded or failed response) changes it.
C16_QueryBelongsToTheSet ==
  [][/\ \A c \in 1..MaxLoads :
          (Applies(c) /\ self'.visible) => self'.query = calls[c].query
     /\ (self.visible /\ self'.visible /\ ~\E c \in 1..MaxLoads : Applies(c))
          => self'.query = self.query]_vars

\* C17: when a response that passes the stale check leaves a non-empty set, the
\* list becomes visible in that step; with selectFirstMatch the cursor is 0 and
\* the selection is the first item of the new set, without it the selection is
\* null and the set stays populated. When the filtered, truncated set is empty
\* the list is reset instead, also if it was open.
C17_ShowOrResetOnResponse ==
  [][\A c \in 1..MaxLoads :
       Applies(c) =>
         \A r \in Responses :
           Resolve(c, r) =>
             LET its == Stored(r, calls[c].tags)
             IN  IF Len(its) > 0
                 THEN /\ self'.visible
                      /\ self'.items = its
                      /\ IF options.selectFirstMatch
                         THEN self'.index = 0 /\ self'.selected = its[1]
                         ELSE self'.selected = NULL
                 ELSE /\ self' = Closed
                      /\ lastPromise' = 0
                      /\ PendingIn(calls') = {}]_vars

\* the response to the second load call has just been applied: the list is
\* open on its stored set, the cursor on the first item
C17_Witness ==
  /\ options.selectFirstMatch
  /\ hist.ok /\ hist.got
  /\ ~hist.discarded
  /\ Len(calls) = 2
  /\ self.visible
  /\ self.index = 0
  /\ self.selected = self.items[1]
  /\ self.items = Stored(hist.resp, tags)

\* C18: on an empty set selectNext, selectPrior and select(i), also through
\* addSuggestionByIndex, are no-ops: the list stays in its closed state with
\* cursor -1 and no selection, and no tag is committed.
C18_NavigationOnEmptySetIsNoOp ==
  [][(Len(self.items) = 0 /\ ~self.visible /\ self.index = -1
        /\ (SelectNext \/ SelectPrior
              \/ \E i \in Indices : Select(i) \/ AddSuggestionByIndex(i))) =>
       /\ self'.index = -1
       /\ ~Truthy(self'.selected)
       /\ self'.items = <<>>
       /\ ~self'.visible
       /\ tags' = tags]_vars

\* the keydown events the claim counts as handled
Suppressed(k) ==
  \/ self.visible /\ k \in {KEYS.down, KEYS.up, KEYS.escape}
  \/ self.visible /\ k \in {KEYS.enter, KEYS.tab} /\ Truthy(self.selected)
  \/ ~self.visible /\ k = KEYS.down /\ options.loadOnDownArrow

\* C19: a keydown is suppressed exactly when it is handled: open with down, up
\* or escape; open with enter/tab and a selection; closed with down and
\* loadOnDownArrow, which issues a load with the typed text whatever its
\* length. Every other keydown is not suppressed, issues no load and leaves
\* the list, the pending timer and the current promise unchanged.
C19_SuppressedIffHandled ==
  [][\A k \in AllKeys :
       InputKeydown(k) =>
         /\ hist'.handled <=> Suppressed(k)
         /\ (~self.visible /\ k = KEYS.down /\ options.loadOnDownArrow)
              => LoadIssued(text)
         /\ ~Suppressed(k) =>
              /\ <<self, lastPromise, debouncedLoadId, calls, tags>>'
                   = <<self, lastPromise, debouncedLoadId, calls, tags>>
              /\ hist'.added = <<>>]_vars

\* the down key has just issued a load, on a closed list, with a text shorter
\* than minLength, and was suppressed
C19_Witness ==
  /\ hist.handled
  /\ ~self.visible
  /\ Len(calls) >= 1
  /\ calls[Len(calls)].status = "pending"
  /\ calls[Len(calls)].query = text
  /\ TextLen(text) < options.minLength

\* C20: after any reset, no fetch fired before it and no timer armed before it
\* changes the state when it later resolves or would fire: such a timer never
\* fires and such a response changes nothing, and the list leaves the closed,
\* empty state only when a load call made after the reset has its own
\* response applied.
C20_NothingOlderThanAResetTakesEffect ==
  [][/\ \A c \in hist.old :
          calls'[c].status # calls[c].status =>
            /\ calls'[c].status \in {"cancelled", "resolved", "rejected"}
            /\ self' = self
            /\ lastPromise' = lastPromise
     /\ (~self.visible /\ self.items = <<>>
           /\ (self'.visible \/ self'.items # <<>>))
          => \E c \in (1..Len(calls)) \ hist.old : Applies(c)]_vars

\* a response has just been discarded while lastPromise is null: its fetch was
\* fired before the last reset, and the list is still closed
C20_Witness ==
  /\ hist.discarded
  /\ lastPromise = 0
  /\ self = Closed
  /\ \E c \in 1..Len(calls) : calls[c].status = "resolved"
====
